---- MODULE Spec2Model ----
(***************************************************************************)
(* Model of the kernel slab allocator (software/kernel/slab.c).            *)
(*                                                                         *)
(* Every source line of slab_alloc and slab_free is one atomic step of the *)
(* calling execution context; contexts on different processors interleave  *)
(* freely, and an interrupt handler may preempt the thread of its own      *)
(* processor whenever interrupts are enabled there.  Addresses are         *)
(* naturals, 0 is the null pointer, and mem maps an address to the pointer *)
(* stored in the word at that address.                                     *)
(***************************************************************************)
EXTENDS Integers, Naturals, Sequences, FiniteSets, TLC

\* ------------------------------------------------------------------ bounds
\* Number of blocks the block provider can hand out before it is exhausted.
MaxBlocks == 2

\* Number of slab_alloc and slab_free calls made in one behaviour.
MaxCalls == 6

\* ---------------------------------------------------------------- constants
\* The null pointer ("void *object = 0").
Null == 0

\* A non-null word that is no object address: what a caller leaves in the
\* leading word of an object it owns.
Poison == Null + 1

\* Lock value when no context holds the spinlock.
NoHolder == "none"

\* (object_size, slab_size) pairs the allocator is constructed with: a slab of
\* exactly two objects, a slab of one object and a slab of two objects, both
\* with a tail shorter than one object.
Configs == {<<2, 4>>, <<3, 4>>, <<2, 5>>}

\* Execution contexts: the thread and the interrupt handler of processor 1 and
\* the thread of processor 2.
Threads == {"t1", "t2"}
Handlers == {"i1"}
Contexts == Threads \cup Handlers

\* Processor a context runs on.
Proc(c) == IF c = "t2" THEN 2 ELSE 1
Procs == {Proc(c) : c \in Contexts}

\* The handler that preempts thread c (handlers themselves are not preempted).
HandlersOf(c) == {h \in Handlers : c \in Threads /\ Proc(h) = Proc(c)}

VARIABLES
    object_size,        \* sa->object_size
    slab_size,          \* sa->slab_size
    free_list,          \* sa->free_list
    wilderness_slab,    \* sa->wilderness_slab
    wilderness_offset,  \* sa->wilderness_offset
    lock,               \* sa->lock: the holder, or NoHolder
    mem,                \* memory: address -> pointer stored in that word
    intEnabled,         \* per processor: interrupt-enable flag
    blocks,             \* block provider: bases of the blocks handed out
    pc,                 \* per context: the source line it executes next
    old_flags,          \* per context: local old_flags
    object,             \* per context: local/parameter object
    entry_flags,        \* per context: interrupt flag when the call was made
    snap,               \* per context: allocator state when the lock was taken
    kres,               \* per context: provider results seen by this call
    live,               \* addresses owned by callers
    returned,           \* every non-null address slab_alloc ever returned
    calls,              \* number of calls made so far
    kreq,               \* per context: sizes this call asked the provider for
    fill,               \* results of the calls so far, while all are
                        \* slab_alloc calls the provider did not refuse
    flen                \* objects pushed minus objects popped

vars == <<object_size, slab_size, free_list, wilderness_slab,
          wilderness_offset, lock, mem, intEnabled, blocks, pc, old_flags,
          object, entry_flags, snap, kres, live, returned, calls, kreq, fill,
          flen>>

sa_vars == <<free_list, wilderness_slab, wilderness_offset>>
cfg_vars == <<object_size, slab_size>>

\* ------------------------------------------------------------- block provider
\* Base address of the k-th block: blocks never overlap, never start at 0.
BlockBase(k) == k * (slab_size + 1)

\* Highest address of the modelled memory.
MaxAddr == BlockBase(MaxBlocks + 1)
Addrs == 0 .. MaxAddr

\* kmalloc(slab_size): a fresh block, or the null indicator on exhaustion.
KmallocResults == {Null} \cup
    (IF Cardinality(blocks) < MaxBlocks
        THEN {BlockBase(Cardinality(blocks) + 1)} ELSE {})

\* --------------------------------------------------------------- free list
\* The chain of objects reachable from head through the leading words.
RECURSIVE ChainFrom(_, _, _)
ChainFrom(m, head, n) ==
    IF head = Null \/ n = 0 \/ head \notin DOMAIN m
        THEN <<>>
        ELSE <<head>> \o ChainFrom(m, m[head], n - 1)

Chain == ChainFrom(mem, free_list, MaxAddr + 1)

Range(s) == {s[i] : i \in 1 .. Len(s)}

\* ------------------------------------------------------------ program order
\* slab_alloc with lines 31 and 32 swapped: the link is read through object
\* before object is set to the head of the free list.
AllocNext_SwapPop(l, taken) ==
    CASE l = "a26" -> "a27"
      [] l = "a27" -> "a28"
      [] l = "a28" -> IF taken THEN "a32" ELSE "a38"
      [] l = "a32" -> "a31"
      [] l = "a31" -> "a49"
      [] l = "a38" -> IF taken THEN "a41" ELSE "a45"
      [] l = "a41" -> "a42"
      [] l = "a42" -> "a45"
      [] l = "a45" -> "a46"
      [] l = "a46" -> "a49"
      [] l = "a49" -> "a50"
      [] l = "a50" -> "a52"
      [] OTHER -> "idle"

\* slab_alloc with lines 45 and 46 swapped: the offset is advanced before the
\* address is computed.
AllocNext_AdvanceFirst(l, taken) ==
    CASE l = "a26" -> "a27"
      [] l = "a27" -> "a28"
      [] l = "a28" -> IF taken THEN "a31" ELSE "a38"
      [] l = "a31" -> "a32"
      [] l = "a32" -> "a49"
      [] l = "a38" -> IF taken THEN "a41" ELSE "a46"
      [] l = "a41" -> "a42"
      [] l = "a42" -> "a46"
      [] l = "a46" -> "a45"
      [] l = "a45" -> "a49"
      [] l = "a49" -> "a50"
      [] l = "a50" -> "a52"
      [] OTHER -> "idle"

\* slab_alloc without the acquire_spinlock call.
AllocNext_NoLock(l, taken) ==
    CASE l = "a26" -> "a28"
      [] l = "a28" -> IF taken THEN "a31" ELSE "a38"
      [] l = "a31" -> "a32"
      [] l = "a32" -> "a49"
      [] l = "a38" -> IF taken THEN "a41" ELSE "a45"
      [] l = "a41" -> "a42"
      [] l = "a42" -> "a45"
      [] l = "a45" -> "a46"
      [] l = "a46" -> "a49"
      [] l = "a49" -> "a50"
      [] l = "a50" -> "a52"
      [] OTHER -> "idle"

\* slab_alloc with lines 49 and 50 swapped: interrupts restored, then the
\* lock released.
AllocNext_RestoreFirst(l, taken) ==
    CASE l = "a26" -> "a27"
      [] l = "a27" -> "a28"
      [] l = "a28" -> IF taken THEN "a31" ELSE "a38"
      [] l = "a31" -> "a32"
      [] l = "a32" -> "a50"
      [] l = "a38" -> IF taken THEN "a41" ELSE "a45"
      [] l = "a41" -> "a42"
      [] l = "a42" -> "a45"
      [] l = "a45" -> "a46"
      [] l = "a46" -> "a50"
      [] l = "a50" -> "a49"
      [] l = "a49" -> "a52"
      [] OTHER -> "idle"

\* Successor of each line of slab_alloc; taken is the outcome of the line's
\* condition, if it has one.
AllocNext(l, taken) ==
    CASE l = "a26" -> "a27"
      [] l = "a27" -> "a28"
      [] l = "a28" -> IF taken THEN "a31" ELSE "a38"
      [] l = "a31" -> "a32"
      [] l = "a32" -> "a49"
      [] l = "a38" -> IF taken THEN "a41" ELSE "a45"
      [] l = "a41" -> "a42"
      [] l = "a42" -> "a45"
      [] l = "a45" -> "a46"
      [] l = "a46" -> "a49"
      [] l = "a49" -> "a50"
      [] l = "a50" -> "a52"
      [] OTHER -> "idle"

\* slab_free with lines 62 and 63 swapped: the lock released before the head
\* of the free list is written.
FreeNext_EarlyRelease(l) ==
    CASE l = "f59" -> "f60"
      [] l = "f60" -> "f61"
      [] l = "f61" -> "f63"
      [] l = "f63" -> "f62"
      [] l = "f62" -> "f64"
      [] l = "f64" -> "f65"
      [] OTHER -> "idle"

\* Successor of each line of slab_free.
FreeNext(l) ==
    CASE l = "f59" -> "f60"
      [] l = "f60" -> "f61"
      [] l = "f61" -> "f62"
      [] l = "f62" -> "f63"
      [] l = "f63" -> "f64"
      [] l = "f64" -> "f65"
      [] OTHER -> "idle"

\* ---------------------------------------------------------- code expressions
\* Line 28 never taking the reuse branch.
HasFree_Never(fl) == FALSE

\* Line 28: if (sa->free_list)
HasFree(fl) == fl # Null

\* Line 32 dropping the rest of the free list.
Deref_Null(m, obj) == Null

\* Line 32: *((void**) object)
Deref(m, obj) == m[obj]

\* Lines 38-39 testing the offset alone against the slab size.
NeedNewSlab_IgnoresObjectSize(slab, off, osz, ssz) ==
    slab = Null \/ off >= ssz

\* Lines 38-39 with >= for >: a slab whose last object fits exactly is
\* taken to be full.
NeedNewSlab_Strict(slab, off, osz, ssz) == slab = Null \/ off + osz >= ssz

\* Lines 38-39 without the test for a missing wilderness slab.
NeedNewSlab_NoNullCheck(slab, off, osz, ssz) == off + osz > ssz

\* Lines 38-39: no wilderness, or the slab is full.
NeedNewSlab(slab, off, osz, ssz) == slab = Null \/ off + osz > ssz

\* Line 42 left out: the offset of the old slab is kept.
ResetOffset_Keep(off) == off

\* Line 42: sa->wilderness_offset = 0
ResetOffset(off) == 0

\* Line 45: (char*) sa->wilderness_slab + sa->wilderness_offset
CarveAddr(slab, off) == slab + off

\* Line 46 advancing by two objects.
AdvanceOffset_Double(off, osz) == off + 2 * osz

\* Line 46 advancing by one byte instead of one object.
AdvanceOffset_Short(off, osz) == off + 1

\* Line 46: sa->wilderness_offset += sa->object_size
AdvanceOffset(off, osz) == off + osz

\* Line 61 storing the object's own address as its link.
LinkWord_Self(fl, obj) == obj

\* Line 61 storing a null link instead of the old head.
LinkWord_Null(fl, obj) == Null

\* Line 61: the word stored into the freed object.
LinkWord(fl, obj) == fl

\* Line 62 left out: the head is not moved to the freed object.
PushHead_Keep(fl, obj) == fl

\* Line 62: sa->free_list = object
PushHead(fl, obj) == obj

\* Lines 50 and 64 enabling interrupts instead of restoring old_flags.
RestoreArg_Enable(c) == TRUE

\* Lines 50 and 64: the argument of restore_interrupts.
RestoreArg(c) == old_flags[c]

\* Line 41: the argument of kmalloc.
RequestSize(ssz) == ssz

\* The provider failed during the current call of c.
ProviderFailed(c) == Null \in Range(kres[c])

\* The record of first results is given up: a slab_free call was made or the
\* provider refused a block.
NoFill == [ok |-> FALSE, addrs |-> <<>>, requests |-> 0]

\* ------------------------------------------------------------------ scheduling
\* A context can take a step: a handler when it is active, a thread when no
\* handler is running on its processor.
Runnable(c) ==
    IF c \in Handlers THEN pc[c] # "off"
    ELSE \A h \in HandlersOf(c) : pc[h] = "off"

\* The allocator's fields and free chain, as seen when the lock is taken.
Snapshot == [slab |-> wilderness_slab, off |-> wilderness_offset,
             fl |-> free_list, chain |-> Chain]

NoSnap == [slab |-> Null, off |-> 0, fl |-> Null, chain |-> <<>>]

Init ==
    /\ \E cfg \in Configs : object_size = cfg[1] /\ slab_size = cfg[2]
    /\ free_list = Null
    /\ wilderness_slab = Null
    /\ wilderness_offset = 0
    /\ lock = NoHolder
    /\ mem = [a \in Addrs |-> Poison]
    /\ intEnabled = [p \in Procs |-> TRUE]
    /\ blocks = {}
    /\ pc = [c \in Contexts |-> IF c \in Handlers THEN "off" ELSE "idle"]
    /\ old_flags = [c \in Contexts |-> FALSE]
    /\ object = [c \in Contexts |-> Null]
    /\ entry_flags = [c \in Contexts |-> FALSE]
    /\ snap = [c \in Contexts |-> NoSnap]
    /\ kres = [c \in Contexts |-> <<>>]
    /\ live = {}
    /\ returned = {}
    /\ calls = 0
    /\ kreq = [c \in Contexts |-> <<>>]
    /\ fill = [ok |-> TRUE, addrs |-> <<>>, requests |-> 0]
    /\ flen = 0

\* ------------------------------------------------------ interrupt delivery
\* An interrupt is taken on the processor of handler h: the hardware clears
\* the interrupt-enable flag and the handler preempts the thread.
TakeInterrupt(h) ==
    /\ h \in Handlers
    /\ pc[h] = "off"
    /\ intEnabled[Proc(h)]
    /\ pc' = [pc EXCEPT ![h] = "idle"]
    /\ intEnabled' = [intEnabled EXCEPT ![Proc(h)] = FALSE]
    /\ UNCHANGED <<cfg_vars, sa_vars, lock, mem, blocks, old_flags, object,
                   entry_flags, snap, kres, live, returned, calls,
                   kreq, fill, flen>>

\* The handler returns: the preempted thread resumes with interrupts enabled.
ReturnFromInterrupt(h) ==
    /\ h \in Handlers
    /\ pc[h] = "idle"
    /\ pc' = [pc EXCEPT ![h] = "off"]
    /\ intEnabled' = [intEnabled EXCEPT ![Proc(h)] = TRUE]
    /\ UNCHANGED <<cfg_vars, sa_vars, lock, mem, blocks, old_flags, object,
                   entry_flags, snap, kres, live, returned, calls,
                   kreq, fill, flen>>

\* A caller stores into the leading word of an object it owns.
CallerWrite(c, a) ==
    /\ pc[c] = "idle" /\ Runnable(c)
    /\ a \in live
    /\ mem[a] # Poison
    /\ mem' = [mem EXCEPT ![a] = Poison]
    /\ UNCHANGED <<cfg_vars, sa_vars, lock, intEnabled, blocks, pc, old_flags,
                   object, entry_flags, snap, kres, live, returned, calls,
                   kreq, fill, flen>>

\* ------------------------------------------------------------------ slab_alloc
\* Lines 21-26: the call; object = 0; old_flags = disable_interrupts();
Alloc26(c) ==
    /\ pc[c] = "idle" /\ Runnable(c)
    /\ calls < MaxCalls
    /\ calls' = calls + 1
    /\ object' = [object EXCEPT ![c] = Null]
    /\ entry_flags' = [entry_flags EXCEPT ![c] = intEnabled[Proc(c)]]
    /\ kres' = [kres EXCEPT ![c] = <<>>]
    /\ old_flags' = [old_flags EXCEPT ![c] = intEnabled[Proc(c)]]
    /\ intEnabled' = [intEnabled EXCEPT ![Proc(c)] = FALSE]
    /\ pc' = [pc EXCEPT ![c] = AllocNext("a26", FALSE)]
    /\ kreq' = [kreq EXCEPT ![c] = <<>>]
    /\ UNCHANGED <<cfg_vars, sa_vars, lock, mem, blocks, snap, live, returned,
                   fill, flen>>

\* Line 27: acquire_spinlock(&sa->lock); spins while the lock is held.
Alloc27(c) ==
    /\ pc[c] = "a27" /\ Runnable(c)
    /\ lock = NoHolder
    /\ lock' = c
    /\ snap' = [snap EXCEPT ![c] = Snapshot]
    /\ pc' = [pc EXCEPT ![c] = AllocNext("a27", FALSE)]
    /\ UNCHANGED <<cfg_vars, sa_vars, mem, intEnabled, blocks, old_flags,
                   object, entry_flags, kres, live, returned, calls,
                   kreq, fill, flen>>

\* Line 28: if (sa->free_list)
Alloc28(c) ==
    /\ pc[c] = "a28" /\ Runnable(c)
    /\ pc' = [pc EXCEPT ![c] = AllocNext("a28", HasFree(free_list))]
    /\ UNCHANGED <<cfg_vars, sa_vars, lock, mem, intEnabled, blocks,
                   old_flags, object, entry_flags, snap, kres, live, returned, calls,
                   kreq, fill, flen>>

\* Line 31: object = sa->free_list;
Alloc31(c) ==
    /\ pc[c] = "a31" /\ Runnable(c)
    /\ object' = [object EXCEPT ![c] = free_list]
    /\ pc' = [pc EXCEPT ![c] = AllocNext("a31", FALSE)]
    /\ UNCHANGED <<cfg_vars, sa_vars, lock, mem, intEnabled, blocks,
                   old_flags, entry_flags, snap, kres, live, returned, calls,
                   kreq, fill, flen>>

\* Line 32: sa->free_list = *((void**) object);
Alloc32(c) ==
    /\ pc[c] = "a32" /\ Runnable(c)
    /\ object[c] \in DOMAIN mem
    /\ free_list' = Deref(mem, object[c])
    /\ pc' = [pc EXCEPT ![c] = AllocNext("a32", FALSE)]
    /\ flen' = flen - 1
    /\ UNCHANGED <<cfg_vars, wilderness_slab, wilderness_offset, lock, mem,
                   intEnabled, blocks, old_flags, object, entry_flags, snap,
                   kres, live, returned, calls,
                   kreq, fill>>

\* Lines 38-39: if (sa->wilderness_slab == 0 || offset + object_size > slab_size)
Alloc38(c) ==
    /\ pc[c] = "a38" /\ Runnable(c)
    /\ pc' = [pc EXCEPT ![c] =
                AllocNext("a38", NeedNewSlab(wilderness_slab,
                    wilderness_offset, object_size, slab_size))]
    /\ UNCHANGED <<cfg_vars, sa_vars, lock, mem, intEnabled, blocks,
                   old_flags, object, entry_flags, snap, kres, live, returned, calls,
                   kreq, fill, flen>>

\* Line 41: sa->wilderness_slab = kmalloc(sa->slab_size);
Alloc41(c) ==
    /\ pc[c] = "a41" /\ Runnable(c)
    /\ \E b \in KmallocResults :
        /\ wilderness_slab' = b
        /\ blocks' = IF b = Null THEN blocks ELSE blocks \cup {b}
        /\ kres' = [kres EXCEPT ![c] = Append(@, b)]
    /\ pc' = [pc EXCEPT ![c] = AllocNext("a41", FALSE)]
    /\ kreq' = [kreq EXCEPT ![c] = Append(@, RequestSize(slab_size))]
    /\ UNCHANGED <<cfg_vars, free_list, wilderness_offset, lock, mem,
                   intEnabled, old_flags, object, entry_flags, snap, live,
                   returned, calls,
                   fill, flen>>

\* Line 42: sa->wilderness_offset = 0;
Alloc42(c) ==
    /\ pc[c] = "a42" /\ Runnable(c)
    /\ wilderness_offset' = ResetOffset(wilderness_offset)
    /\ pc' = [pc EXCEPT ![c] = AllocNext("a42", FALSE)]
    /\ UNCHANGED <<cfg_vars, free_list, wilderness_slab, lock, mem,
                   intEnabled, blocks, old_flags, object, entry_flags, snap,
                   kres, live, returned, calls,
                   kreq, fill, flen>>

\* Line 45: object = (void*)((char*) sa->wilderness_slab + sa->wilderness_offset);
Alloc45(c) ==
    /\ pc[c] = "a45" /\ Runnable(c)
    /\ object' = [object EXCEPT ![c] =
                    CarveAddr(wilderness_slab, wilderness_offset)]
    /\ pc' = [pc EXCEPT ![c] = AllocNext("a45", FALSE)]
    /\ UNCHANGED <<cfg_vars, sa_vars, lock, mem, intEnabled, blocks,
                   old_flags, entry_flags, snap, kres, live, returned, calls,
                   kreq, fill, flen>>

\* Line 46: sa->wilderness_offset += sa->object_size;
Alloc46(c) ==
    /\ pc[c] = "a46" /\ Runnable(c)
    /\ wilderness_offset' = AdvanceOffset(wilderness_offset, object_size)
    /\ pc' = [pc EXCEPT ![c] = AllocNext("a46", FALSE)]
    /\ UNCHANGED <<cfg_vars, free_list, wilderness_slab, lock, mem,
                   intEnabled, blocks, old_flags, object, entry_flags, snap,
                   kres, live, returned, calls,
                   kreq, fill, flen>>

\* Line 49: release_spinlock(&sa->lock);
Alloc49(c) ==
    /\ pc[c] = "a49" /\ Runnable(c)
    /\ lock' = NoHolder
    /\ snap' = [snap EXCEPT ![c] = NoSnap]
    /\ pc' = [pc EXCEPT ![c] = AllocNext("a49", FALSE)]
    /\ fill' = IF fill.ok /\ ~ProviderFailed(c)
                THEN [ok |-> TRUE, addrs |-> Append(fill.addrs, object[c]),
                      requests |-> fill.requests + Len(kreq[c])]
                ELSE NoFill
    /\ UNCHANGED <<cfg_vars, sa_vars, mem, intEnabled, blocks, old_flags,
                   object, entry_flags, kres, live, returned, calls,
                   kreq, flen>>

\* Line 50: restore_interrupts(old_flags);
Alloc50(c) ==
    /\ pc[c] = "a50" /\ Runnable(c)
    /\ intEnabled' = [intEnabled EXCEPT ![Proc(c)] = RestoreArg(c)]
    /\ pc' = [pc EXCEPT ![c] = AllocNext("a50", FALSE)]
    /\ UNCHANGED <<cfg_vars, sa_vars, lock, mem, blocks, old_flags, object,
                   entry_flags, snap, kres, live, returned, calls,
                   kreq, fill, flen>>

\* Line 52: return object; a non-null result is now owned by the caller.
Alloc52(c) ==
    /\ pc[c] = "a52" /\ Runnable(c)
    /\ live' = IF object[c] = Null THEN live ELSE live \cup {object[c]}
    /\ returned' = IF object[c] = Null THEN returned
                   ELSE returned \cup {object[c]}
    /\ pc' = [pc EXCEPT ![c] = AllocNext("a52", FALSE)]
    /\ object' = [object EXCEPT ![c] = Null]
    /\ old_flags' = [old_flags EXCEPT ![c] = FALSE]
    /\ entry_flags' = [entry_flags EXCEPT ![c] = FALSE]
    /\ kres' = [kres EXCEPT ![c] = <<>>]
    /\ kreq' = [kreq EXCEPT ![c] = <<>>]
    /\ UNCHANGED <<cfg_vars, sa_vars, lock, mem, intEnabled, blocks, snap,
                   calls,
                   fill, flen>>

\* ------------------------------------------------------------------- slab_free
\* Lines 55-59: the call; old_flags = disable_interrupts();  By contract the
\* object was returned by slab_alloc on this allocator and is not free, and
\* the caller gives up ownership of it.
Free59(c, a) ==
    /\ pc[c] = "idle" /\ Runnable(c)
    /\ calls < MaxCalls
    /\ calls' = calls + 1
    /\ a \in live
    /\ live' = live \ {a}
    /\ object' = [object EXCEPT ![c] = a]
    /\ entry_flags' = [entry_flags EXCEPT ![c] = intEnabled[Proc(c)]]
    /\ old_flags' = [old_flags EXCEPT ![c] = intEnabled[Proc(c)]]
    /\ intEnabled' = [intEnabled EXCEPT ![Proc(c)] = FALSE]
    /\ pc' = [pc EXCEPT ![c] = FreeNext("f59")]
    /\ fill' = NoFill
    /\ UNCHANGED <<cfg_vars, sa_vars, lock, mem, blocks, snap, kres, returned,
                   kreq, flen>>

\* Line 60: acquire_spinlock(&sa->lock);
Free60(c) ==
    /\ pc[c] = "f60" /\ Runnable(c)
    /\ lock = NoHolder
    /\ lock' = c
    /\ snap' = [snap EXCEPT ![c] = Snapshot]
    /\ pc' = [pc EXCEPT ![c] = FreeNext("f60")]
    /\ UNCHANGED <<cfg_vars, sa_vars, mem, intEnabled, blocks, old_flags,
                   object, entry_flags, kres, live, returned, calls,
                   kreq, fill, flen>>

\* Line 61: *((void**) object) = sa->free_list;
Free61(c) ==
    /\ pc[c] = "f61" /\ Runnable(c)
    /\ object[c] \in DOMAIN mem
    /\ mem' = [mem EXCEPT ![object[c]] = LinkWord(free_list, object[c])]
    /\ pc' = [pc EXCEPT ![c] = FreeNext("f61")]
    /\ UNCHANGED <<cfg_vars, sa_vars, lock, intEnabled, blocks, old_flags,
                   object, entry_flags, snap, kres, live, returned, calls,
                   kreq, fill, flen>>

\* Line 62: sa->free_list = object;
Free62(c) ==
    /\ pc[c] = "f62" /\ Runnable(c)
    /\ free_list' = PushHead(free_list, object[c])
    /\ pc' = [pc EXCEPT ![c] = FreeNext("f62")]
    /\ flen' = flen + 1
    /\ UNCHANGED <<cfg_vars, wilderness_slab, wilderness_offset, lock, mem,
                   intEnabled, blocks, old_flags, object, entry_flags, snap,
                   kres, live, returned, calls,
                   kreq, fill>>

\* Line 63: release_spinlock(&sa->lock);
Free63(c) ==
    /\ pc[c] = "f63" /\ Runnable(c)
    /\ lock' = NoHolder
    /\ snap' = [snap EXCEPT ![c] = NoSnap]
    /\ pc' = [pc EXCEPT ![c] = FreeNext("f63")]
    /\ UNCHANGED <<cfg_vars, sa_vars, mem, intEnabled, blocks, old_flags,
                   object, entry_flags, kres, live, returned, calls,
                   kreq, fill, flen>>

\* Line 64: restore_interrupts(old_flags);
Free64(c) ==
    /\ pc[c] = "f64" /\ Runnable(c)
    /\ intEnabled' = [intEnabled EXCEPT ![Proc(c)] = RestoreArg(c)]
    /\ pc' = [pc EXCEPT ![c] = FreeNext("f64")]
    /\ UNCHANGED <<cfg_vars, sa_vars, lock, mem, blocks, old_flags, object,
                   entry_flags, snap, kres, live, returned, calls,
                   kreq, fill, flen>>

\* Line 65: return.
Free65(c) ==
    /\ pc[c] = "f65" /\ Runnable(c)
    /\ pc' = [pc EXCEPT ![c] = FreeNext("f65")]
    /\ object' = [object EXCEPT ![c] = Null]
    /\ old_flags' = [old_flags EXCEPT ![c] = FALSE]
    /\ entry_flags' = [entry_flags EXCEPT ![c] = FALSE]
    /\ UNCHANGED <<cfg_vars, sa_vars, lock, mem, intEnabled, blocks, snap,
                   kres, live, returned, calls,
                   kreq, fill, flen>>

Next ==
    \/ \E h \in Handlers : TakeInterrupt(h)
    \/ \E h \in Handlers : ReturnFromInterrupt(h)
    \/ \E c \in Contexts : \E a \in live : CallerWrite(c, a)
    \/ \E c \in Contexts : Alloc26(c)
    \/ \E c \in Contexts : Alloc27(c)
    \/ \E c \in Contexts : Alloc28(c)
    \/ \E c \in Contexts : Alloc31(c)
    \/ \E c \in Contexts : Alloc32(c)
    \/ \E c \in Contexts : Alloc38(c)
    \/ \E c \in Contexts : Alloc41(c)
    \/ \E c \in Contexts : Alloc42(c)
    \/ \E c \in Contexts : Alloc45(c)
    \/ \E c \in Contexts : Alloc46(c)
    \/ \E c \in Contexts : Alloc49(c)
    \/ \E c \in Contexts : Alloc50(c)
    \/ \E c \in Contexts : Alloc52(c)
    \/ \E c \in Contexts : \E a \in live : Free59(c, a)
    \/ \E c \in Contexts : Free60(c)
    \/ \E c \in Contexts : Free61(c)
    \/ \E c \in Contexts : Free62(c)
    \/ \E c \in Contexts : Free63(c)
    \/ \E c \in Contexts : Free64(c)
    \/ \E c \in Contexts : Free65(c)

Spec == Init /\ [][Next]_vars

\* ------------------------------------------------------------- serial meaning
\* slab_alloc run alone from allocator state s, the provider answering with
\* the results kr: the state it leaves and the value it returns.
SerialAlloc(s, kr) ==
    IF HasFree(s.fl)
        THEN [slab |-> s.slab, off |-> s.off, chain |-> Tail(s.chain),
              result |-> s.fl, requests |-> 0]
    ELSE IF NeedNewSlab(s.slab, s.off, object_size, slab_size)
        THEN [slab |-> kr[1],
              off |-> AdvanceOffset(ResetOffset(s.off), object_size),
              chain |-> s.chain,
              result |-> CarveAddr(kr[1], ResetOffset(s.off)),
              requests |-> 1]
    ELSE [slab |-> s.slab, off |-> AdvanceOffset(s.off, object_size),
          chain |-> s.chain, result |-> CarveAddr(s.slab, s.off),
          requests |-> 0]

\* slab_free(obj) run alone from allocator state s.
SerialFree(s, obj) ==
    [slab |-> s.slab, off |-> s.off, chain |-> <<obj>> \o s.chain]

\* ------------------------------------------------------------ where a call is
\* slab_alloc has chosen its result and changed the allocator for it.
AllocDone(c) == pc[c] \in {"a49", "a50", "a52"}

\* slab_free has not yet put its object on the free list.
FreePending(c) == pc[c] \in {"f60", "f61", "f62"}

\* The lines that read or write free_list, wilderness_slab, wilderness_offset
\* or the link word of a freed object.
Accessing(c) == pc[c] \in {"a28", "a31", "a32", "a38", "a41", "a42", "a45",
                           "a46", "f61", "f62"}

\* Between acquire_spinlock and release_spinlock.
InCritical(c) == Accessing(c) \/ pc[c] \in {"a49", "f63"}

\* The object a call in progress holds for its caller.
HeldBy(c) ==
    IF (AllocDone(c) /\ object[c] # Null) \/ FreePending(c)
        THEN {object[c]} ELSE {}

InFlight == UNION {HeldBy(c) : c \in Contexts}

\* Objects owned by callers, calls in progress included.
Held == live \cup InFlight

\* Objects on the free list.
Free == Range(Chain)

\* Every address handed out so far.
Carved == returned \cup UNION {HeldBy(c) : c \in {x \in Contexts : AllocDone(x)}}

\* Start addresses in the current slab that are not carved yet.
Uncarved ==
    IF wilderness_slab = Null THEN {}
    ELSE {wilderness_slab + o : o \in wilderness_offset .. slab_size - 1}

Disjoint(a, b) == a + object_size <= b \/ b + object_size <= a

\* ---------------------------------------------------------------------- claims
\* C1: no two live allocations share an address or overlap over object_size
\* bytes, and slab_alloc returns an address again only after it was freed.
C1_NoOverlap ==
    /\ \A c \in Contexts : HeldBy(c) \cap live = {}
    /\ \A c, d \in Contexts : c # d => HeldBy(c) \cap HeldBy(d) = {}
    /\ \A a, b \in Held : a # b => Disjoint(a, b)

\* An address is being returned for the second time while another is live.
C1_Witness ==
    \E c \in Contexts :
        /\ pc[c] = "a52" /\ object[c] \in returned
        /\ Cardinality(live) >= 1

\* C2 (as claimed): when the provider fails, slab_alloc leaves wilderness_slab,
\* wilderness_offset and free_list as they were before the call.
C2_FailureLeavesStateUnchanged ==
    \A c \in Contexts :
        (pc[c] = "a49" /\ ProviderFailed(c)) =>
            /\ wilderness_slab = snap[c].slab
            /\ wilderness_offset = snap[c].off
            /\ free_list = snap[c].fl

\* C3: when the provider fails, slab_alloc returns null and has called the
\* provider exactly once.
C3_ExhaustionReported ==
    \A c \in Contexts :
        /\ Len(kres[c]) <= 1
        /\ (AllocDone(c) /\ ProviderFailed(c)) =>
                object[c] = Null /\ Len(kres[c]) = 1

\* slab_alloc is about to return after the provider refused to replace a
\* full slab.
C3_Witness ==
    \E c \in Contexts :
        /\ pc[c] = "a52" /\ kres[c] = <<Null>>
        /\ blocks # {}

\* C4: the free list is a stack: slab_free puts its object in front of the
\* chain, and slab_alloc on a non-empty chain returns its first object, leaves
\* the rest, and makes no provider request.
C4_LifoReuse ==
    \A c \in Contexts :
        /\ pc[c] = "f63" => Chain = <<object[c]>> \o snap[c].chain
        /\ (pc[c] = "a49" /\ snap[c].chain # <<>>) =>
                /\ object[c] = Head(snap[c].chain)
                /\ Chain = Tail(snap[c].chain)
                /\ kres[c] = <<>>

\* slab_alloc has popped the later of two freed objects.
C4_Witness ==
    \E c \in Contexts :
        /\ pc[c] = "a49" /\ Len(snap[c].chain) >= 2
        /\ object[c] = snap[c].chain[1]

\* C5: whatever the interleaving, each call leaves the allocator in the state,
\* and returns the value, that the call run alone would have produced from the
\* state in which it took the lock, and no other call has changed that state
\* in between: the calls are serialised in the order of their lock
\* acquisitions.
C5_Atomic ==
    \A c \in Contexts :
        /\ pc[c] = "a49" =>
            LET r == SerialAlloc(snap[c], kres[c]) IN
                /\ wilderness_slab = r.slab
                /\ wilderness_offset = r.off
                /\ Chain = r.chain
                /\ object[c] = r.result
                /\ Len(kres[c]) = r.requests
        /\ pc[c] = "f63" =>
            LET r == SerialFree(snap[c], object[c]) IN
                /\ wilderness_slab = r.slab
                /\ wilderness_offset = r.off
                /\ Chain = r.chain
        /\ pc[c] \in {"a28", "f61"} =>
            /\ wilderness_slab = snap[c].slab
            /\ wilderness_offset = snap[c].off
            /\ Chain = snap[c].chain

\* A call finishes its critical section while the two other contexts are
\* inside calls of their own.
C5_Witness ==
    \E c \in Contexts :
        /\ pc[c] \in {"a49", "f63"}
        /\ \A d \in Contexts \ {c} :
                pc[d] \in {"a27", "f60", "a50", "f64", "a52", "f65"}

\* C6: a context about to read or write the allocator's fields or a link word
\* holds the lock and has interrupts disabled, and at most one context is in
\* the critical section.
C6_MutualExclusion ==
    /\ \A c \in Contexts :
            Accessing(c) => lock = c /\ ~intEnabled[Proc(c)]
    /\ Cardinality({c \in Contexts : InCritical(c)}) <= 1

\* One context is in the critical section while another spins on the lock.
C6_Witness ==
    \E c, d \in Contexts :
        /\ c # d /\ Proc(c) # Proc(d)
        /\ Accessing(c)
        /\ pc[d] \in {"a27", "f60"}

\* C7: the holder of the lock has interrupts disabled, so a handler never
\* waits for the lock while the thread it preempted holds it.
C7_NoSelfDeadlock ==
    /\ \A c \in Contexts : lock = c => ~intEnabled[Proc(c)]
    /\ \A h \in Handlers : \A t \in Threads :
            (Proc(h) = Proc(t) /\ pc[h] \in {"a27", "f60"}) => lock # t

\* A handler waits for the lock while the thread it preempted is inside a
\* call (past its critical section), and another processor holds the lock.
C7_Witness ==
    \E h \in Handlers : \E t \in Threads :
        /\ Proc(h) = Proc(t)
        /\ pc[h] \in {"a27", "f60"}
        /\ pc[t] \in {"a52", "f65"}
        /\ lock \notin {NoHolder, h}

\* C8: when slab_alloc or slab_free returns, the interrupt flag of the calling
\* context is what it was when the call was made.
C8_InterruptsRestored ==
    \A c \in Contexts :
        (Runnable(c) /\ pc[c] \in {"a52", "f65"}) =>
            intEnabled[Proc(c)] = entry_flags[c]

\* A call made with interrupts disabled returns after a provider failure, and
\* a call made with interrupts enabled returns.
C8_Witness ==
    /\ \E c \in Contexts :
        /\ pc[c] = "a52" /\ ~entry_flags[c] /\ ProviderFailed(c)
    /\ \E c \in Contexts :
        /\ Runnable(c) /\ pc[c] \in {"a52", "f65"} /\ entry_flags[c]

\* C9: every address returned lies in a block obtained from the provider, at
\* a multiple of object_size from the start of the block.
C9_AddressesInBlocks ==
    \A a \in Carved :
        \E b \in blocks :
            /\ b <= a /\ a < b + slab_size
            /\ (a - b) % object_size = 0

\* Addresses of two blocks have been returned.
C9_Witness ==
    \E a, b \in returned : \E x, y \in blocks :
        /\ x # y
        /\ x <= a /\ a < x + slab_size
        /\ y <= b /\ b < y + slab_size

\* C10: every carved slot is either held by a caller or on the free list,
\* never both, and no start address at or beyond wilderness_offset in the
\* current slab is held or free.
C10_Partition ==
    /\ Carved = Held \cup Free
    /\ Held \cap Free = {}
    /\ Uncarved \cap (Held \cup Free) = {}

\* Live, free and uncarved slots exist at the same time.
C10_Witness ==
    /\ live # {} /\ Free # {}
    /\ \E a \in Uncarved : a + object_size <= wilderness_slab + slab_size

\* C11: wilderness_offset stays within 0 .. slab_size, and a slab_alloc that
\* finds the free list empty and no slab, or a slab that cannot hold another
\* object, asks the provider exactly once, for slab_size bytes, and returns
\* the start of the block it is given.
C11_WildernessBound ==
    /\ wilderness_offset \in 0 .. slab_size
    /\ \A c \in Contexts :
        (/\ pc[c] = "a49"
         /\ snap[c].fl = Null
         /\ (snap[c].slab = Null \/ snap[c].off + object_size > slab_size)) =>
            /\ kreq[c] = <<slab_size>>
            /\ Len(kres[c]) = 1
            /\ kres[c][1] # Null =>
                /\ object[c] = kres[c][1]
                /\ object[c] \in blocks
                /\ wilderness_slab = object[c]

\* slab_alloc found a full slab and returns the start of a second block.
C11_Witness ==
    \E c \in Contexts :
        /\ pc[c] = "a49"
        /\ snap[c].slab # Null /\ snap[c].off + object_size > slab_size
        /\ Len(kres[c]) = 1 /\ kres[c][1] # Null
        /\ object[c] = kres[c][1]

\* The slabs hold a whole number of objects.
ExactFit == slab_size % object_size = 0

\* Objects per slab.
PerSlab == slab_size \div object_size

\* C12: when slab_size is a multiple K of object_size, the first K slab_alloc
\* calls (no slab_free call made, no block refused) have made one provider
\* request between them and returned base, base + object_size, ...,
\* base + (K-1) * object_size in that order.
C12_ExactSlabFill ==
    (ExactFit /\ fill.ok) =>
        /\ \A i \in 1 .. Len(fill.addrs) :
                i <= PerSlab =>
                    fill.addrs[i] = BlockBase(1) + (i - 1) * object_size
        /\ (Len(fill.addrs) \in 1 .. PerSlab) => fill.requests = 1

\* K = 2 calls have filled the first slab.
C12_Witness ==
    /\ ExactFit /\ fill.ok
    /\ PerSlab >= 2
    /\ Len(fill.addrs) = PerSlab
    /\ fill.requests = 1

\* ------------------------------------------------------------------- fairness
\* A step of context c inside a call it has made.
CallStep(c) ==
    \/ Alloc27(c) \/ Alloc28(c) \/ Alloc31(c) \/ Alloc32(c) \/ Alloc38(c)
    \/ Alloc41(c) \/ Alloc42(c) \/ Alloc45(c) \/ Alloc46(c) \/ Alloc49(c)
    \/ Alloc50(c) \/ Alloc52(c)
    \/ Free60(c) \/ Free61(c) \/ Free62(c) \/ Free63(c) \/ Free64(c)
    \/ Free65(c)

\* Context c is inside slab_alloc or slab_free.
InCall(c) == pc[c] \notin {"idle", "off"}

\* Termination does not depend on the sizes: it is checked for the allocator
\* whose slabs hold one object, where every call but a reuse asks the
\* provider.
FairInit == Init /\ PerSlab = 1

\* Fair scheduling: a context that can take a step of its call again and
\* again takes it (a processor keeps executing, a spinning context gets the
\* lock when it is released again and again, the provider returns), and an
\* interrupt handler returns.
FairSpec ==
    /\ FairInit /\ [][Next]_vars
    /\ \A c \in Contexts : SF_vars(CallStep(c))
    /\ \A h \in Handlers : WF_vars(ReturnFromInterrupt(h))

\* C13: under fair scheduling every call of slab_alloc and slab_free
\* completes.
C13_Termination ==
    \A c \in Contexts : InCall(c) ~> ~InCall(c)

\* A context waits for the lock held by another while the third, preempted
\* or running, is about to return from its call.
C13_Witness ==
    \E c, d, e \in Contexts :
        /\ c # d /\ d # e /\ c # e
        /\ pc[c] \in {"a27", "f60"}
        /\ pc[d] \in {"a52", "f65"}
        /\ InCritical(e)

\* The word at address a is written by the step.
Written(a) == mem'[a] # mem[a]

\* Context c executes line 61 in the step.
Executes61(c) == pc[c] = "f61" /\ pc'[c] # "f61"

\* C14: the allocator reads memory only at line 32, the leading word of the
\* head of the free list it is popping, and writes memory only at line 61, the
\* leading word of the object slab_free was given; neither object is live.
\* Every other change of memory is a caller's store into an object it owns.
C14_LiveObjectsUntouched ==
    /\ [](\A c \in Contexts :
            /\ pc[c] = "a32" =>
                /\ object[c] = free_list
                /\ object[c] \in Free
                /\ object[c] \notin live
            /\ pc[c] = "f61" =>
                /\ object[c] \in returned
                /\ object[c] \notin live \cup Free)
    /\ [][\A a \in DOMAIN mem :
            Written(a) =>
                \/ a \in live /\ mem'[a] = Poison
                \/ \E c \in Contexts :
                        Executes61(c) /\ object[c] = a /\ a \notin live]_vars

\* slab_alloc is about to read the link of the head it pops, from a free list
\* of two objects, while another object is live and holds what its caller
\* stored in it.
C14_Witness ==
    \E c \in Contexts :
        /\ pc[c] = "a32"
        /\ Len(Chain) >= 2
        /\ \E a \in live : mem[a] = Poison

\* Context c executes the line at label l in the step.
Executes(c, l) == pc[c] = l /\ pc'[c] # l

\* C15 (as claimed): wilderness_offset never decreases; it only ever grows by
\* exactly object_size.
C15_OffsetNeverDecreases ==
    [][\/ wilderness_offset' = wilderness_offset
       \/ wilderness_offset' = wilderness_offset + object_size]_vars

\* C15 (amended): wilderness_offset changes only inside an expansion-mode
\* slab_alloc: it is reset to 0 at line 42, after the provider was asked for
\* a new block, and otherwise only grows, by exactly object_size at line 46,
\* once per expansion-mode allocation.
C15_OffsetResetOrAdvance ==
    /\ [][\/ wilderness_offset' = wilderness_offset
          \/ /\ wilderness_offset' = wilderness_offset + object_size
             /\ \E c \in Contexts : Executes(c, "a46")
          \/ /\ wilderness_offset' = 0
             /\ \E c \in Contexts : Executes(c, "a42") /\ Len(kres[c]) = 1]_vars
    /\ [](\A c \in Contexts :
            pc[c] = "a49" =>
                wilderness_offset =
                    IF snap[c].fl # Null THEN snap[c].off
                    ELSE IF kres[c] # <<>> THEN object_size
                    ELSE snap[c].off + object_size)

\* Line 42 has just reset the offset to 0 for the block that replaces a full
\* slab.
C15_Witness ==
    \E c \in Contexts :
        /\ pc[c] = "a45"
        /\ Len(kres[c]) = 1 /\ kres[c][1] # Null
        /\ snap[c].slab # Null /\ snap[c].off > 0
        /\ wilderness_offset = 0

\* C16: slab_alloc on a non-empty free list returns its head, asks the
\* provider for nothing and leaves wilderness_slab and wilderness_offset
\* alone; the provider is asked only when the free list is empty and there is
\* no slab or the slab cannot hold another object.
C16_FastPathFrame ==
    \A c \in Contexts :
        /\ (pc[c] = "a49" /\ snap[c].fl # Null) =>
            /\ object[c] = snap[c].fl
            /\ kreq[c] = <<>> /\ kres[c] = <<>>
            /\ wilderness_slab = snap[c].slab
            /\ wilderness_offset = snap[c].off
        /\ (pc[c] \in {"a41", "a42", "a45", "a46", "a49"}
                /\ (pc[c] = "a41" \/ kreq[c] # <<>>)) =>
            /\ snap[c].fl = Null
            /\ \/ snap[c].slab = Null
               \/ snap[c].off + object_size > slab_size

\* slab_alloc has served a call from the free list although the slab was
\* full, where a carve would have had to ask the provider.
C16_Witness ==
    \E c \in Contexts :
        /\ pc[c] = "a49" /\ snap[c].fl # Null
        /\ snap[c].slab # Null
        /\ snap[c].off + object_size > slab_size

\* Where a slot is in its life, given the held and the free slots.
SlotState(a, held, free) ==
    IF a \in held THEN "live"
    ELSE IF a \in free THEN "free"
    ELSE "uncarved"

\* C17: a slot only goes from uncarved to live, from live to free and from
\* free to live; it never becomes uncarved again.
C17_SlotLifecycle ==
    [][LET heldBefore == Held
           freeBefore == Free
           heldAfter == Held'
           freeAfter == Free'
       IN  \A a \in heldBefore \cup freeBefore \cup heldAfter \cup freeAfter :
            LET before == SlotState(a, heldBefore, freeBefore)
                after == SlotState(a, heldAfter, freeAfter)
            IN  \/ after = before
                \/ before = "uncarved" /\ after = "live"
                \/ before = "live" /\ after = "free"
                \/ before = "free" /\ after = "live"]_vars

\* A slot of the first block is on the free list and another is live again
\* after having been free, while the second block is the wilderness.
C17_Witness ==
    /\ Cardinality(blocks) >= 2
    /\ \E a \in Free : a < wilderness_slab
    /\ \E a \in live : a < wilderness_slab /\ mem[a] \notin {Poison}

\* C18: every object handed out lies wholly inside its block, also when
\* slab_size is not a multiple of object_size.
C18_ObjectsFitInBlock ==
    \A a \in Carved :
        \E b \in blocks : b <= a /\ a + object_size <= b + slab_size

\* The slabs have an unused tail and the first one was abandoned for a
\* second, from which an object was handed out too.
C18_Witness ==
    /\ ~ExactFit
    /\ Cardinality(blocks) >= 2
    /\ \E a \in Carved : a >= wilderness_slab /\ wilderness_slab # Null
    /\ \E a \in Carved : a < wilderness_slab

\* The state a refused request leaves behind: no slab, and an offset that is
\* not the initial one.
AfterFailure(s) == s.slab = Null /\ s.off # 0

\* C19: whatever the provider answered before, slab_alloc returns null or an
\* address inside a block the provider handed out, and the first carving
\* slab_alloc after a refusal asks the provider again and, given a block,
\* returns its start.
C19_RecoveryAfterFailure ==
    \A c \in Contexts :
        /\ (AllocDone(c) /\ object[c] # Null) =>
                \E b \in blocks : b <= object[c] /\ object[c] < b + slab_size
        /\ (pc[c] = "a49" /\ snap[c].fl = Null /\ AfterFailure(snap[c])) =>
            /\ Len(kres[c]) = 1
            /\ kres[c][1] # Null =>
                /\ object[c] = kres[c][1]
                /\ wilderness_slab = kres[c][1]
                /\ wilderness_offset = object_size

\* After a refusal that followed a first block, the provider has handed out a
\* second block and slab_alloc returns its start.
C19_Witness ==
    \E c \in Contexts :
        /\ pc[c] = "a49" /\ snap[c].fl = Null /\ AfterFailure(snap[c])
        /\ Len(kres[c]) = 1 /\ kres[c][1] # Null
        /\ object[c] = kres[c][1]
        /\ Cardinality(blocks) >= 2

\* C20: outside the critical section the chain from free_list is finite, ends
\* at null, holds no slot twice, and holds exactly the slots handed out and
\* not held by a caller: as many as were pushed and not popped since.
C20_FreeListWellFormed ==
    lock = NoHolder =>
        /\ Len(Chain) <= MaxAddr
        /\ Chain = <<>> => free_list = Null
        /\ Chain # <<>> => mem[Chain[Len(Chain)]] = Null
        /\ Cardinality(Free) = Len(Chain)
        /\ Free = returned \ Held
        /\ Len(Chain) = flen

\* No call is in progress, a slot is on the free list, and a live slot still
\* carries the link it had when it was on the free list.
C20_Witness ==
    /\ lock = NoHolder
    /\ \A c \in Contexts : ~InCall(c)
    /\ Len(Chain) >= 1
    /\ \E a \in live : mem[a] # Poison
====
